---- MODULE Spec2Model ----
(***************************************************************************)
(* Model of scripts/compress_plans.py: the status-header rewrite of the    *)
(* dated plan documents under doc/plans.                                   *)
(*                                                                         *)
(* Strings are sequences of tokens.  A token is a TLA+ string standing for *)
(* exactly the characters it spells, so Len(token) is its length in        *)
(* characters; "\n" is the line break, " " a whitespace character, "#" a   *)
(* hash sign.  A file name is the token sequence of its characters         *)
(* (digits one by one, so that dates compare character by character).      *)
(***************************************************************************)
EXTENDS Integers, Sequences, FiniteSets, TLC

VARIABLES
    fs,          \* the plans directory: file name -> text
    before,      \* fs as it was when the current run of main() started
    pending,     \* names the directory enumeration has not yielded yet
    plans,       \* main(): the list `plans`
    superseded,  \* main(): the dict `superseded`
    idx,         \* main(): position of the second loop in `plans`
    reads,       \* names read by the current run
    writes,      \* names written by the current run
    run,         \* which run of main() this is
    pc,          \* position in main()
    doc,         \* extract_summary: the text it is applied to
    extracted    \* extract_summary: its result, once applied

vars == <<fs, before, pending, plans, superseded, idx, reads, writes, run, pc,
          doc, extracted>>

\* ------------------------------------------------------------------ bounds

\* Longest directory of a full run of main().
MaxFiles == 3
\* Longest directory of the supersession runs.
MaxEntries == 3
\* Longest document handed to extract_summary, in lines.
MaxLines == 3
\* The long title is this many times ten characters.
LongTitleTens == 28

\* ------------------------------------------------------------- characters

NL == "\n"
SP == " "
HASH == "#"

RECURSIVE Repeat(_, _)
Repeat(s, n) == IF n = 0 THEN "" ELSE s \o Repeat(s, n - 1)

\* Length in characters of a token sequence.
RECURSIVE CharLen(_)
CharLen(s) == IF s = <<>> THEN 0 ELSE Len(Head(s)) + CharLen(Tail(s))

\* Code point of a character of a file-name date.
Ord(c) ==
    CASE c = "-" -> 45
      [] c = "0" -> 48 [] c = "1" -> 49 [] c = "2" -> 50 [] c = "3" -> 51
      [] c = "4" -> 52 [] c = "5" -> 53 [] c = "6" -> 54 [] c = "7" -> 55
      [] c = "8" -> 56 [] c = "9" -> 57
      [] OTHER -> 0

IsDigit(c) == c \in {"0", "1", "2", "3", "4", "5", "6", "7", "8", "9"}

\* Python's < on str: the first differing character decides, a proper
\* prefix is smaller.
RECURSIVE LexLess(_, _)
LexLess(a, b) ==
    IF b = <<>> THEN FALSE
    ELSE IF a = <<>> THEN TRUE
    ELSE IF Head(a) = Head(b) THEN LexLess(Tail(a), Tail(b))
    ELSE Ord(Head(a)) < Ord(Head(b))

\* str.splitlines(): every line break ends a line; what follows the last
\* line break is a line only when it is not empty.
RECURSIVE SplitFrom(_, _, _, _)
SplitFrom(text, i, cur, acc) ==
    IF i > Len(text)
    THEN IF cur = <<>> THEN acc ELSE Append(acc, cur)
    ELSE IF text[i] = NL
         THEN SplitFrom(text, i + 1, <<>>, Append(acc, cur))
         ELSE SplitFrom(text, i + 1, Append(cur, text[i]), acc)

splitlines(text) == SplitFrom(text, 1, <<>>, <<>>)

\* "\n".join(lines)
RECURSIVE join(_)
join(lines) ==
    IF lines = <<>> THEN <<>>
    ELSE IF Len(lines) = 1 THEN Head(lines)
    ELSE Head(lines) \o <<NL>> \o join(Tail(lines))

\* str.strip()
RECURSIVE lstrip(_)
lstrip(s) == IF s # <<>> /\ Head(s) = SP THEN lstrip(Tail(s)) ELSE s

RECURSIVE rstrip(_)
rstrip(s) ==
    IF s # <<>> /\ s[Len(s)] = SP THEN rstrip(SubSeq(s, 1, Len(s) - 1)) ELSE s

strip(s) == rstrip(lstrip(s))

\* ------------------------------------------------------ summary extraction

\* The three compiled patterns of extract_summary.
GoalPattern == "goal"
H3Pattern == "h3"
H2Pattern == "h2"

\* Number of " " tokens at the start of s: what \s* consumes.
RECURSIVE Blanks(_)
Blanks(s) == IF s # <<>> /\ Head(s) = SP THEN 1 + Blanks(Tail(s)) ELSE 0

\* ^\s*#{n}\s* : the length of the match at the start of the line, or -1.
HeadingMatch(line, n) ==
    LET b == Blanks(line)
    IN  IF /\ Len(line) >= b + n
           /\ \A k \in 1..n : line[b + k] = HASH
        THEN b + n + Blanks(SubSeq(line, b + n + 1, Len(line)))
        ELSE -1

\* ^\s*\*\*Goal:\*\*\s*|^\s*Goal:\s*
GoalMatch(line) ==
    LET b == Blanks(line)
    IN  IF Len(line) >= b + 1 /\ line[b + 1] \in {"**Goal:**", "Goal:"}
        THEN b + 1 + Blanks(SubSeq(line, b + 2, Len(line)))
        ELSE -1

PatternMatch(pattern, line) ==
    CASE pattern = GoalPattern -> GoalMatch(line)
      [] pattern = H3Pattern -> HeadingMatch(line, 3)
      [] pattern = H2Pattern -> HeadingMatch(line, 2)

\* pattern.search(line)
search(pattern, line) == PatternMatch(pattern, line) >= 0

\* pattern.sub("", line).strip(): the pattern is anchored at the start of
\* the line, so the one match it has is the prefix.
cleaned(pattern, line) ==
    strip(SubSeq(line, PatternMatch(pattern, line) + 1, Len(line)))

\* The loop of extract_lines from line i on, `found` being its list `lines`.
RECURSIVE ExtractFrom(_, _, _, _, _)
ExtractFrom(lines, i, count, pattern, found) ==
    IF i > Len(lines) THEN found
    ELSE LET line == lines[i]
             got == IF search(pattern, line) /\ cleaned(pattern, line) # <<>>
                    THEN Append(found, cleaned(pattern, line))
                    ELSE found
         IN  IF Len(got) >= count THEN got
             ELSE ExtractFrom(lines, i + 1, count, pattern, got)

extract_lines(text, count, pattern) ==
    ExtractFrom(splitlines(text), 1, count, pattern, <<>>)

\* task_lines[:k]
Take(s, k) == SubSeq(s, 1, IF Len(s) < k THEN Len(s) ELSE k)

\* The fallback to "##" headings left out.
extract_summary_no_fallback(text) ==
    LET goal_lines == extract_lines(text, 1, GoalPattern)
        task_lines == extract_lines(text, 2, H3Pattern)
        goal == IF goal_lines # <<>> THEN <<(<<"Goal: ">> \o goal_lines[1])>>
                ELSE <<>>
        scope == [k \in 1..Len(Take(task_lines, 1)) |->
                      <<"Scope: ">> \o task_lines[k]]
    IN  [summary |-> goal \o scope,
         planned |-> IF task_lines # <<>> THEN Take(task_lines, 2) ELSE <<>>]

extract_summary(text) ==
    LET goal_lines == extract_lines(text, 1, GoalPattern)
        h3 == extract_lines(text, 2, H3Pattern)
        task_lines == IF h3 = <<>> THEN extract_lines(text, 2, H2Pattern) ELSE h3
        goal == IF goal_lines # <<>> THEN <<(<<"Goal: ">> \o goal_lines[1])>>
                ELSE <<>>
        scope == [k \in 1..Len(Take(task_lines, 1)) |->
                      <<"Scope: ">> \o task_lines[k]]
    IN  [summary |-> goal \o scope,
         planned |-> IF task_lines # <<>> THEN Take(task_lines, 2) ELSE <<>>]

\* ------------------------------------------------------------ header block

NA == <<"N/A">>
Historical == <<"Historical">>
HistoricalSuperseded == <<"Historical", " (superseded)">>

Bullets(items) == [k \in 1..Len(items) |-> <<"> - ">> \o items[k]]

\* The list `lines` of header_block.
HeaderLines(status, superseded_by, summary, planned) ==
    <<(<<"> Status: ">> \o status),
      (<<"> Superseded by: ">> \o superseded_by),
      <<"> Summary:">>>>
    \o (IF summary # <<>> THEN Bullets(summary) ELSE << <<"> - Goal: N/A">> >>)
    \o << <<"> Planned Outcomes:">> >>
    \o (IF planned # <<>> THEN Bullets(planned) ELSE << <<"> - N/A">> >>)

header_block(status, superseded_by, summary, planned) ==
    join(HeaderLines(status, superseded_by, summary, planned)) \o <<NL, NL>>

\* --------------------------------------------------------------- file names

MD == ".md"
DESIGN == "-design"
IMPL == "-impl"

\* DATE_CUTOFF = "2026-02-05"
DATE_CUTOFF == <<"2", "0", "2", "6", "-", "0", "2", "-", "0", "5">>

\* parse_plan's None.
None == [path |-> <<>>, date |-> <<>>, slug |-> <<>>]

\* ^(\d{4}-\d{2}-\d{2})-(.+)\.md$ matches the name.
NameMatches(name) ==
    /\ Len(name) >= 13
    /\ \A k \in {1, 2, 3, 4, 6, 7, 9, 10} : IsDigit(name[k])
    /\ name[5] = "-" /\ name[8] = "-" /\ name[11] = "-"
    /\ name[Len(name)] = MD

parse_plan(path) ==
    IF NameMatches(path)
    THEN [path |-> path,
          date |-> SubSeq(path, 1, 10),
          slug |-> SubSeq(path, 12, Len(path) - 1)]
    ELSE None

\* PLANS_DIR.glob("*.md")
GlobMatch(name) == name # <<>> /\ name[Len(name)] = MD

\* The comparison gone strict: meta.date > DATE_CUTOFF.
AtOrAfterCutoffStrict(date) == LexLess(DATE_CUTOFF, date)

\* meta.date >= DATE_CUTOFF
AtOrAfterCutoff(date) == ~LexLess(date, DATE_CUTOFF)

\* ------------------------------------------------------------ supersession

Last(s) == s[Len(s)]

\* plan.slug.endswith("-design")
EndsWithDesign(slug) == slug # <<>> /\ Last(slug) = DESIGN

\* plan.slug.replace("-design", "-impl"): every occurrence is replaced.
impl_slug(slug) == [k \in 1..Len(slug) |-> IF slug[k] = DESIGN THEN IMPL ELSE slug[k]]

\* One step of the stable sort: p goes after every item dated no later.
RECURSIVE InsertByDate(_, _)
InsertByDate(sorted, p) ==
    IF sorted = <<>> THEN <<p>>
    ELSE IF LexLess(p.date, Head(sorted).date) THEN <<p>> \o sorted
    ELSE <<Head(sorted)>> \o InsertByDate(Tail(sorted), p)

RECURSIVE SortFrom(_, _, _)
SortFrom(items, i, sorted) ==
    IF i > Len(items) THEN sorted
    ELSE SortFrom(items, i + 1, InsertByDate(sorted, items[i]))

\* The sort left out: the lists stay in enumeration order.
SortByDateOmitted(items) == items

\* items.sort(key=lambda p: p.date)
SortByDate(items) == SortFrom(items, 1, <<>>)

RECURSIVE Filter(_, _, _)
Filter(items, i, keep) ==
    IF i > Len(items) THEN <<>>
    ELSE (IF keep[i] THEN <<items[i]>> ELSE <<>>) \o Filter(items, i + 1, keep)

\* by_slug.get(slug, []) once every list is sorted.
BySlug(ps, slug) ==
    SortByDate(Filter(ps, 1, [k \in 1..Len(ps) |-> ps[k].slug = slug]))

\* The comparison gone weak: p.date >= plan.date.
IsNewerOrSame(p, plan) == ~LexLess(p.date, plan.date)

\* The comparison gone symmetric: p.date != plan.date.
IsNewerOrOlder(p, plan) == p.date # plan.date

\* p.date > plan.date
IsNewer(p, plan) == LexLess(plan.date, p.date)

\* The first item taken for the last: items[0].
EarliestOf(items) == Head(items).path

\* impls[-1], newer[-1]
LatestOf(items) == Last(items).path

\* The body of the second loop of superseded_map.
SupersededBy(ps, plan) ==
    LET impls == IF EndsWithDesign(plan.slug)
                 THEN BySlug(ps, impl_slug(plan.slug)) ELSE <<>>
        first == IF impls # <<>> THEN LatestOf(impls) ELSE NA
        same == BySlug(ps, plan.slug)
        newer == Filter(same, 1, [k \in 1..Len(same) |-> IsNewer(same[k], plan)])
    IN  IF first # NA THEN first
        ELSE IF newer # <<>> THEN LatestOf(newer) ELSE NA

superseded_map(ps) ==
    [path \in {ps[k].path : k \in 1..Len(ps)} |->
        SupersededBy(ps, ps[CHOOSE k \in 1..Len(ps) : ps[k].path = path])]

\* -------------------------------------------------------------------- main

\* The 300 of text[:300].
HeaderWindow == 300

\* "> Status: Historical" in text[:300]: the marker starts at some token and
\* ends within the first 300 characters.
already_has_header(text) ==
    \E i \in 1..(Len(text) - 1) :
        /\ text[i] = "> Status: "
        /\ text[i + 1] = "Historical"
        /\ CharLen(SubSeq(text, 1, i - 1)) + Len("> Status: ") + Len("Historical")
               <= HeaderWindow

\* The test inverted: superseded_by == "N/A".
StatusOfInverted(superseded_by) ==
    IF superseded_by = NA THEN HistoricalSuperseded ELSE Historical

\* status = "Historical"; if superseded_by != "N/A": status = "Historical (superseded)"
StatusOf(superseded_by) ==
    IF superseded_by # NA THEN HistoricalSuperseded ELSE Historical

\* lines[0] + "\n\n" + header + "\n".join(lines[1:]) + "\n"
Splice(lines, header) ==
    Head(lines) \o <<NL, NL>> \o header \o join(Tail(lines)) \o <<NL>>

\* The text main() writes for a file it rewrites.
NewText(text, superseded_by) ==
    LET ex == extract_summary(text)
        header == header_block(StatusOf(superseded_by), superseded_by,
                               ex.summary, ex.planned)
    IN  Splice(splitlines(text), header)

\* superseded.get(plan.path, "N/A")
Get(map, path) == IF path \in DOMAIN map THEN map[path] ELSE NA

EmptyMap == [n \in {} |-> NA]
NoResult == [summary |-> <<>>, planned |-> <<>>]

\* One turn of the first loop: the enumeration yields `path`.
Enumerate ==
    /\ pc = "glob"
    /\ \E path \in pending :
        LET meta == parse_plan(path)
        IN  /\ pending' = pending \ {path}
            /\ plans' = IF meta = None \/ AtOrAfterCutoff(meta.date)
                        THEN plans ELSE Append(plans, meta)
    /\ UNCHANGED <<fs, before, superseded, idx, reads, writes, run, pc, doc, extracted>>

\* superseded = superseded_map(plans), once the enumeration is exhausted.
BuildMap ==
    /\ pc = "glob"
    /\ pending = {}
    /\ superseded' = superseded_map(plans)
    /\ idx' = 1
    /\ pc' = "loop"
    /\ UNCHANGED <<fs, before, pending, plans, reads, writes, run, doc, extracted>>

\* One turn of the second loop.
ProcessPlan ==
    /\ pc = "loop"
    /\ idx <= Len(plans)
    /\ LET path == plans[idx].path
           text == fs[path]
       IN  /\ reads' = reads \cup {path}
           /\ IF already_has_header(text) \/ splitlines(text) = <<>>
              THEN UNCHANGED <<fs, writes>>
              ELSE /\ fs' = [fs EXCEPT ![path] = NewText(text, Get(superseded, path))]
                   /\ writes' = writes \cup {path}
    /\ idx' = idx + 1
    /\ UNCHANGED <<before, pending, plans, superseded, run, pc, doc, extracted>>

\* return 0
EndRun ==
    /\ pc = "loop"
    /\ idx > Len(plans)
    /\ pc' = "done"
    /\ UNCHANGED <<fs, before, pending, plans, superseded, idx, reads, writes, run,
                   doc, extracted>>

\* main() is run again on what the first run left.
SecondRun ==
    /\ pc = "done"
    /\ run = 1
    /\ run' = 2
    /\ before' = fs
    /\ pending' = {n \in DOMAIN fs : GlobMatch(n)}
    /\ plans' = <<>>
    /\ superseded' = EmptyMap
    /\ idx' = 0
    /\ reads' = {}
    /\ writes' = {}
    /\ pc' = "glob"
    /\ UNCHANGED <<fs, doc, extracted>>

\* ------------------------------------------------------------------ inputs

FileName(date, slug) == date \o <<"-">> \o slug \o <<MD>>

Date20241231 == <<"2", "0", "2", "4", "-", "1", "2", "-", "3", "1">>
Date20250101 == <<"2", "0", "2", "5", "-", "0", "1", "-", "0", "1">>
Date20250601 == <<"2", "0", "2", "5", "-", "0", "6", "-", "0", "1">>

FooDesign == <<"foo", DESIGN>>
FooImpl == <<"foo", IMPL>>
UiSystemDesign == <<"ui", DESIGN, "-system", DESIGN>>
UiSystemImpl == <<"ui", DESIGN, "-system", IMPL>>

\* 2025-01-01-foo-design.md and 2025-06-01-foo-impl.md, both before the cutoff.
DesignFile == FileName(Date20250101, FooDesign)
ImplFile == FileName(Date20250601, FooImpl)
\* Dated on the cutoff itself.
CutoffFile == FileName(DATE_CUTOFF, FooImpl)
\* Not a plan name.
ReadmeFile == <<"README", MD>>

MainNames == {DesignFile, ImplFile, CutoffFile, ReadmeFile}

SupNames ==
    {FileName(d, s) : d \in {Date20241231, Date20250101, Date20250601},
                      s \in {FooDesign, FooImpl}}
    \cup {FileName(Date20250101, UiSystemDesign),
          FileName(Date20250601, UiSystemImpl),
          CutoffFile, ReadmeFile}

TitleLine == <<HASH, SP, "Title">>
GoalLine == <<"**Goal:**", SP, "Ship X">>
StepOneLine == <<HASH, HASH, HASH, SP, "Step One">>

\* "# Title\n**Goal:** Ship X\n### Step One\n"
ExampleDoc == TitleLine \o <<NL>> \o GoalLine \o <<NL>> \o StepOneLine \o <<NL>>
\* "# Title\n"
TitleOnlyDoc == TitleLine \o <<NL>>
\* A document that carries the status marker already.
MarkedDoc ==
    TitleLine \o <<NL, NL, "> Status: ", "Historical", NL, "body", NL>>
\* A document whose title is longer than the window of already_has_header.
LongTitleDoc ==
    <<HASH, SP, Repeat("0123456789", LongTitleTens), NL, "body", NL>>
EmptyDoc == <<>>

MainTexts == {EmptyDoc, TitleOnlyDoc, ExampleDoc, MarkedDoc, LongTitleDoc}

\* The lines the documents of extract_summary are made of.
DocLines ==
    {TitleLine,
     GoalLine,
     <<"Goal:", SP, "Ship Y">>,
     <<"Goal:", SP>>,
     StepOneLine,
     <<HASH, HASH, HASH, "Step Two">>,
     <<HASH, HASH, HASH, SP>>,
     <<SP, HASH, HASH, HASH, SP, "Indented", SP>>,
     <<HASH, HASH, HASH, HASH, SP, "Deep">>,
     <<HASH, HASH, SP, "Phase A">>}

DocsOfLines == UNION {[1..n -> DocLines] : n \in 0..MaxLines}

Directories(names, texts, most) ==
    UNION {[d -> texts] : d \in {s \in SUBSET names : Cardinality(s) \in 1..most}}

\* --------------------------------------------------------- specifications

InitRun ==
    /\ before = fs
    /\ pending = {n \in DOMAIN fs : GlobMatch(n)}
    /\ plans = <<>>
    /\ superseded = EmptyMap
    /\ idx = 0
    /\ reads = {}
    /\ writes = {}
    /\ run = 1
    /\ pc = "glob"
    /\ doc = <<>>
    /\ extracted = NoResult

\* main() on a directory of at most MaxFiles files, and then once more.
Init ==
    /\ fs \in Directories(MainNames, MainTexts, MaxFiles)
    /\ InitRun

Next == Enumerate \/ BuildMap \/ ProcessPlan \/ EndRun \/ SecondRun

Spec == Init /\ [][Next]_vars

\* One run of main() on a directory of at most MaxEntries plan files.
InitSup ==
    /\ fs \in Directories(SupNames, {ExampleDoc}, MaxEntries)
    /\ InitRun

NextSup == Enumerate \/ BuildMap \/ ProcessPlan \/ EndRun

SpecSup == InitSup /\ [][NextSup]_vars

\* extract_summary applied to a document.
ExtractSummary ==
    /\ pc = "text"
    /\ extracted' = extract_summary(doc)
    /\ pc' = "extracted"
    /\ UNCHANGED <<fs, before, pending, plans, superseded, idx, reads, writes, run, doc>>

InitExtract ==
    /\ \E ls \in DocsOfLines : doc = IF ls = <<>> THEN <<>> ELSE join(ls) \o <<NL>>
    /\ extracted = NoResult
    /\ fs = EmptyMap
    /\ before = EmptyMap
    /\ pending = {}
    /\ plans = <<>>
    /\ superseded = EmptyMap
    /\ idx = 0
    /\ reads = {}
    /\ writes = {}
    /\ run = 1
    /\ pc = "text"

NextExtract == ExtractSummary

SpecExtract == InitExtract /\ [][NextExtract]_vars

\* ------------------------------------------------------------- properties

\* The plan entries of the directory: the names that parse and are dated
\* before the cutoff, as a set (no enumeration order).
Entries ==
    {parse_plan(n) : n \in {m \in DOMAIN fs :
        GlobMatch(m) /\ NameMatches(m) /\ LexLess(SubSeq(m, 1, 10), DATE_CUTOFF)}}

WithSlug(slug) == {q \in Entries : q.slug = slug}

\* The entry of the latest date in a set of entries.
MaxDate(S) == CHOOSE q \in S : \A r \in S : ~LexLess(q.date, r.date)

Mapped == pc \in {"loop", "done"}

\* The slug with its trailing "-design" replaced by "-impl".
SuffixSibling(slug) == SubSeq(slug, 1, Len(slug) - 1) \o <<IMPL>>

\* The design-to-impl rule, as superseded_map applies it, finds no candidate.
NoImplCandidate(p) == ~EndsWithDesign(p.slug) \/ WithSlug(impl_slug(p.slug)) = {}

\* C1: main() is idempotent: after a second run every file is what the
\* first run left.
C1_Idempotent == (pc = "done" /\ run = 2) => fs = before

\* C2: a file dated on or after the cutoff is never read and never written,
\* and keeps its content, whatever else is in the directory.
C2_CutoffUntouched ==
    \A n \in DOMAIN fs :
        (NameMatches(n) /\ ~LexLess(SubSeq(n, 1, 10), DATE_CUTOFF))
            => n \notin reads /\ n \notin writes /\ fs[n] = before[n]

C2_Witness ==
    /\ pc = "done"
    /\ CutoffFile \in DOMAIN fs
    /\ fs[CutoffFile] = ExampleDoc
    /\ writes # {}

\* C3: a "-design" entry with at least one entry under the sibling slug (the
\* trailing "-design" replaced by "-impl") is superseded by the latest-dated
\* sibling entry.
C3_DesignToImpl ==
    Mapped =>
        \A p \in Entries :
            (EndsWithDesign(p.slug) /\ WithSlug(SuffixSibling(p.slug)) # {})
                => superseded[p.path] = MaxDate(WithSlug(SuffixSibling(p.slug))).path

\* C4 as stated: every superseding document is dated strictly later than the
\* entry it supersedes, whichever rule found it.
C4_PointsForward ==
    Mapped =>
        \A p \in Entries :
            superseded[p.path] # NA
                => \E q \in Entries : /\ q.path = superseded[p.path]
                                      /\ LexLess(p.date, q.date)

\* C4 as amended: a target of the entry's own slug (the same-slug rule) is
\* dated strictly later; any other target belongs to a "-design" entry and
\* is the latest entry of the impl sibling slug, whatever its date.
C4_SameSlugPointsForward ==
    Mapped =>
        \A p \in Entries :
            superseded[p.path] # NA
                => \E q \in Entries :
                      /\ q.path = superseded[p.path]
                      /\ IF q.slug = p.slug
                         THEN LexLess(p.date, q.date)
                         ELSE /\ EndsWithDesign(p.slug)
                              /\ q.slug = impl_slug(p.slug)
                              /\ q = MaxDate(WithSlug(q.slug))

C4_Witness ==
    /\ pc = "done"
    /\ \E p, q \in Entries :
          /\ superseded[p.path] = q.path /\ q.slug = p.slug
    /\ \E p, q \in Entries :
          /\ superseded[p.path] = q.path /\ q.slug # p.slug
          /\ LexLess(q.date, p.date)

\* C5: of two entries of one slug, the earlier one, when the design-to-impl
\* rule finds no candidate for it, is superseded by the latest-dated entry of
\* the slug: never "N/A", never an entry dated no later than itself.
C5_SameSlugLatest ==
    Mapped =>
        \A a, b \in Entries :
            (a.slug = b.slug /\ LexLess(a.date, b.date) /\ NoImplCandidate(a))
                => /\ superseded[a.path] = MaxDate(WithSlug(a.slug)).path
                   /\ superseded[a.path] # NA
                   /\ \A q \in Entries :
                         q.path = superseded[a.path] => LexLess(a.date, q.date)

C5_Witness ==
    /\ pc = "done"
    /\ \E a, b, c \in Entries :
          /\ a.slug = b.slug /\ b.slug = c.slug
          /\ LexLess(a.date, b.date) /\ LexLess(b.date, c.date)
          /\ NoImplCandidate(a)
          /\ superseded[a.path] = c.path

\* C6: in a header main() wrote, the status line says "Historical
\* (superseded)" exactly when resolution found a superseding document, which
\* the "Superseded by" line then names; otherwise "Historical" and "N/A".
\* The design file of the example pair points at the impl file, which is
\* itself "Historical" with "N/A".
C6_StatusAgrees ==
    Mapped =>
        /\ \A n \in writes :
              LET ls == splitlines(fs[n])
                  t == Get(superseded, n)
              IN  /\ ls[4] = <<"> Superseded by: ">> \o t
                  /\ IF t # NA
                     THEN /\ ls[3] = <<"> Status: ", "Historical", " (superseded)">>
                          /\ t \in DOMAIN fs
                     ELSE ls[3] = <<"> Status: ", "Historical">>
        /\ (DesignFile \in writes /\ ImplFile \in DOMAIN fs)
              => /\ splitlines(fs[DesignFile])[3]
                        = <<"> Status: ", "Historical", " (superseded)">>
                 /\ splitlines(fs[DesignFile])[4] = <<"> Superseded by: ">> \o ImplFile
        /\ ImplFile \in writes
              => /\ splitlines(fs[ImplFile])[3] = <<"> Status: ", "Historical">>
                 /\ splitlines(fs[ImplFile])[4] = <<"> Superseded by: ", "N/A">>

C6_Witness ==
    /\ pc = "done"
    /\ run = 1
    /\ {DesignFile, ImplFile} \subseteq writes

IsHeaderLine(l) ==
    /\ l # <<>>
    /\ Head(l) \in {"> Status: ", "> Superseded by: ", "> Summary:", "> - ",
                    "> - Goal: N/A", "> Planned Outcomes:", "> - N/A"}

\* new is old with a blank line, k header lines and a blank line put after
\* its first line, and nothing else.
FrameHolds(old, new) ==
    LET o == splitlines(old)
        w == splitlines(new)
        k == Len(w) - Len(o) - 2
    IN  /\ k >= 1
        /\ w[1] = o[1]
        /\ w[2] = <<>>
        /\ \A j \in 3..(k + 2) : IsHeaderLine(w[j])
        /\ w[k + 3] = <<>>
        /\ \A j \in 2..Len(o) : w[k + 2 + j] = o[j]

\* C7: a rewritten file is its first line, a blank line, the header block, a
\* blank line, then its lines 2..n as they were; any other file keeps its
\* content.
C7_Frame ==
    \A n \in DOMAIN fs :
        IF n \in writes THEN FrameHolds(before[n], fs[n]) ELSE fs[n] = before[n]

\* The lines of the document that match the pattern and are not blank once
\* the marker is stripped.
Hits(pattern) ==
    {i \in 1..Len(splitlines(doc)) :
        /\ search(pattern, splitlines(doc)[i])
        /\ cleaned(pattern, splitlines(doc)[i]) # <<>>}

Min(S) == CHOOSE i \in S : \A j \in S : i <= j

\* The stripped text of the first two lines of Hits(pattern), in order.
FirstTwo(pattern) ==
    LET H == Hits(pattern)
        ls == splitlines(doc)
    IN  IF H = {} THEN <<>>
        ELSE IF Cardinality(H) = 1 THEN <<cleaned(pattern, ls[Min(H)])>>
        ELSE <<cleaned(pattern, ls[Min(H)]), cleaned(pattern, ls[Min(H \ {Min(H)})])>>

\* C8: the summary holds at most one "Goal: " line, from the first line with
\* a non-blank goal; the planned outcomes are the first two non-blank "###"
\* headings, or "##" headings when "###" yields none; the summary holds a
\* "Scope: " line exactly when there is a planned outcome, and it is the
\* first one.  The example document gives Goal: Ship X, Scope: Step One and
\* the planned outcome Step One.
C8_SummaryShape ==
    pc = "extracted" =>
        LET sm == extracted.summary
            pl == extracted.planned
            goals == {k \in 1..Len(sm) : Head(sm[k]) = "Goal: "}
            scopes == {k \in 1..Len(sm) : Head(sm[k]) = "Scope: "}
            ls == splitlines(doc)
        IN  /\ Cardinality(goals) <= 1
            /\ goals # {} <=> Hits(GoalPattern) # {}
            /\ goals # {} =>
                  sm[1] = <<"Goal: ">> \o cleaned(GoalPattern, ls[Min(Hits(GoalPattern))])
            /\ Len(pl) <= 2
            /\ pl = IF Hits(H3Pattern) # {} THEN FirstTwo(H3Pattern)
                    ELSE FirstTwo(H2Pattern)
            /\ Cardinality(scopes) <= 1
            /\ scopes # {} <=> pl # <<>>
            /\ scopes # {} => sm[Len(sm)] = <<"Scope: ">> \o pl[1]
            /\ Len(sm) = Cardinality(goals) + Cardinality(scopes)
            /\ doc = ExampleDoc =>
                  /\ sm = << <<"Goal: ", "Ship X">>, <<"Scope: ", "Step One">> >>
                  /\ pl = << <<"Step One">> >>

C8_Witness ==
    /\ pc = "extracted"
    /\ Cardinality(Hits(H3Pattern)) = 2
    /\ Cardinality(Hits(GoalPattern)) = 1
    /\ Len(extracted.planned) = 2
    /\ Len(extracted.summary) = 2

\* The supersession target of an entry as a function of the set of entries.
RefTarget(p) ==
    IF ~NoImplCandidate(p) THEN MaxDate(WithSlug(impl_slug(p.slug))).path
    ELSE IF \E q \in WithSlug(p.slug) : LexLess(p.date, q.date)
         THEN MaxDate(WithSlug(p.slug)).path
         ELSE NA

\* C9: the map gives every entry exactly one value, "N/A" or a file name,
\* which depends on the set of entries alone, whatever the order of the
\* enumeration; and so does the content of every file after main().
C9_OrderIndependent ==
    /\ Mapped =>
          /\ DOMAIN superseded = {p.path : p \in Entries}
          /\ \A p \in Entries :
                /\ superseded[p.path] = RefTarget(p)
                /\ superseded[p.path] = NA \/ superseded[p.path] \in DOMAIN fs
    /\ pc = "done" =>
          \A n \in DOMAIN fs :
              fs[n] = IF parse_plan(n) \in Entries
                      THEN NewText(before[n], RefTarget(parse_plan(n)))
                      ELSE before[n]

\* The enumeration yielded a later entry of a slug before an earlier one,
\* and the later one supersedes some entry.
C9_Witness ==
    /\ pc = "done"
    /\ \E i, j \in 1..Len(plans) :
          /\ i < j
          /\ plans[i].slug = plans[j].slug
          /\ LexLess(plans[j].date, plans[i].date)
          /\ \E n \in DOMAIN superseded :
                n # plans[j].path /\ superseded[n] = plans[i].path

\* C10: a supersession target is another entry of the processed set (not the
\* entry itself, not a file left out by name or by cutoff) and is itself not
\* superseded; no written "Historical (superseded)" header points at a file
\* whose header says superseded.
C10_ChainsLengthOne ==
    /\ Mapped =>
          \A n \in DOMAIN superseded :
              superseded[n] # NA =>
                  LET t == superseded[n]
                  IN  /\ t # n
                      /\ t \in DOMAIN superseded
                      /\ t \in DOMAIN fs
                      /\ NameMatches(t)
                      /\ LexLess(SubSeq(t, 1, 10), DATE_CUTOFF)
                      /\ superseded[t] = NA
    /\ pc = "done" =>
          \A n \in writes :
              splitlines(fs[n])[3] = <<"> Status: ", "Historical", " (superseded)">>
                  => \E t \in writes :
                        /\ splitlines(fs[n])[4] = <<"> Superseded by: ">> \o t
                        /\ splitlines(fs[t])[3] = <<"> Status: ", "Historical">>

C10_Witness ==
    /\ pc = "done"
    /\ \E n, m \in DOMAIN superseded :
          /\ n # m
          /\ superseded[n] # NA
          /\ superseded[m] # NA
          /\ superseded[n] \in writes

====
